---- MODULE Spec2Model ----
(***************************************************************************)
(* A model of src/jira.py: the Jira REST client.                           *)
(*                                                                         *)
(*   processUpdateFields  builds the request body from fieldArgs and       *)
(*                        updateArgs and validates them;                   *)
(*   doJiraRequest        resolves the endpoint against the REST prefix    *)
(*                        and the server, sends one HTTP request and       *)
(*                        turns the outcome into (status, body);           *)
(*   createOneIssue       the first followed by a POST of the body.        *)
(*                                                                         *)
(* Representation.  A Python str that is used as a URL path is modelled by *)
(* the sequence str.split('/') (so "" is <<"">> and "a/" is <<"a", "">>).  *)
(* A URL is the record urlparse() yields, restricted to scheme, netloc and *)
(* path.  An optional argument is [present, val].  fieldArgs is a function *)
(* from field names to values; updateArgs, whose iteration order decides   *)
(* which field is validated first, is the sequence of its items in         *)
(* insertion order.  A JSON document is [type, members].                   *)
(***************************************************************************)
EXTENDS Integers, Sequences, FiniteSets, TLC

VARIABLES
    pc,         \* "idle" | "waiting" | "returned" | "raised"
    op,         \* the method the caller invoked
    server,     \* self.server
    fieldArgs,  \* argument of createOneIssue
    updateArgs, \* argument of createOneIssue
    endpoint,   \* argument of doJiraRequest
    data,       \* the request body handed to doJiraRequest
    wire,       \* the HTTP requests sent so far
    outcome,    \* what requests.request did: a response or a transport error
    status,     \* first component of the returned pair
    body,       \* second component of the returned pair
    exc         \* the exception that reached the caller

vars == <<pc, op, server, fieldArgs, updateArgs, endpoint, data, wire,
          outcome, status, body, exc>>

-----------------------------------------------------------------------------
(* Bounds of the input space *)

MaxActions == 2
MaxKeys == 1

Fields == {"summary", "labels"}
FieldValues == {"X", "Y"}
Verbs == {"add", "bogus"}
ActionValues == {"foo"}

-----------------------------------------------------------------------------
(* Python values *)

EmptyDict == [k \in {} |-> "X"]

NoneArg == [present |-> FALSE, val |-> EmptyDict]

Some(v) == [present |-> TRUE, val |-> v]

NoException == [type |-> "none", text |-> "", args |-> {}, allowed |-> {}]

Raise(type, text, args, allowed) ==
    [type |-> type, text |-> text, args |-> args, allowed |-> allowed]

\* JiraError(message=...): class JiraError(Exception)
JiraError(text, args, allowed) == Raise("JiraError", text, args, allowed)

\* The attributes of a Jira instance that hold data: the class attribute and
\* the ones __init__ assigns.
JiraAttributes ==
    [REST_ENDPOINT_PREFIX |-> [scheme |-> "", netloc |-> "",
                               path |-> <<"rest", "api", "2", "">>],
     user |-> "user", pwd |-> "password", headers |-> "Accept", auth |-> "basic",
     server |-> "server"]

\* self.<name>: Python raises AttributeError when the lookup finds nothing.
HasAttr(name) == name \in DOMAIN JiraAttributes

REST_ENDPOINT_PREFIX == JiraAttributes["REST_ENDPOINT_PREFIX"]

\* builtin exception hierarchy, as far as the handlers of doJiraRequest see it
IsInstance(type, class) ==
    \/ type = class
    \/ class = "Exception" /\ type \in {"ValueError", "RequestException",
                                          "JiraError", "AttributeError"}

-----------------------------------------------------------------------------
(* processUpdateFields *)

Keys(d) == DOMAIN d

\* set(updateArgs): the field names of the update items
UpdateKeys(u) == {u[i].field : i \in 1..Len(u)}

\* set.union(set(), *(action.keys() for action in actions))
VerbsOf(actions) == UNION {DOMAIN actions[i] : i \in 1..Len(actions)}

\* mutant: every field of updateArgs is taken for a duplicate
DuplicateFieldsAllUpdate(f, u) == UpdateKeys(u)

DuplicateFields(f, u) == Keys(f) \cap UpdateKeys(u)

\* the for loop of lines 75-83, from item i on, update_dict built so far
RECURSIVE UpdateLoop(_, _, _)
UpdateLoop(u, i, update_dict) ==
    IF i > Len(u)
    THEN [exc |-> NoException, update |-> update_dict]
    ELSE LET verbs == VerbsOf(u[i].actions) IN
         IF ~HasAttr("UPDATE_VERBS")
         THEN [exc |-> Raise("AttributeError", "UPDATE_VERBS", {}, {}),
               update |-> update_dict]
         ELSE LET allowed == JiraAttributes["UPDATE_VERBS"] IN
              IF verbs \ allowed # {}
              THEN [exc |-> JiraError("Unsupported verbs in update query",
                                      verbs \ allowed, allowed),
                    update |-> update_dict]
              ELSE UpdateLoop(u, i + 1, Append(update_dict, u[i]))

NoData == [keys |-> {}, fields |-> EmptyDict, update |-> <<>>]

\* the result is [exc, data]; data is the dict with the keys it holds
ProcessUpdateFields(f, u) ==
    IF f.present /\ u.present /\ DuplicateFields(f.val, u.val) # {}
    THEN [exc |-> JiraError("Following fields are present in both fieldArgs and updateArgs",
                            DuplicateFields(f.val, u.val), {}),
          data |-> NoData]
    ELSE LET fields_dict == [k \in Keys(f.val) |-> f.val[k]]
             d1 == IF f.present
                   THEN [NoData EXCEPT !.keys = {"fields"}, !.fields = fields_dict]
                   ELSE NoData
         IN  IF u.present
             THEN LET l == UpdateLoop(u.val, 1, <<>>) IN
                  IF l.exc.type # "none"
                  THEN [exc |-> l.exc, data |-> NoData]
                  ELSE [exc |-> NoException,
                        data |-> [d1 EXCEPT !.keys = @ \cup {"update"},
                                            !.update = l.update]]
             ELSE [exc |-> NoException, data |-> d1]

-----------------------------------------------------------------------------
(* urllib.parse.urljoin, on the urlparse() records *)

Url(scheme, netloc, path) == [scheme |-> scheme, netloc |-> netloc, path |-> path]

UsesRelative == {"", "http", "https"}
UsesNetloc == {"", "http", "https"}

IsEmptyUrl(u) == u.scheme = "" /\ u.netloc = "" /\ u.path = <<"">>

Front(s) == SubSeq(s, 1, Len(s) - 1)

\* filter(None, segs): drops the empty segments
RECURSIVE FilterNonEmpty(_)
FilterNonEmpty(segs) ==
    IF segs = <<>> THEN <<>>
    ELSE IF Head(segs) = "" THEN FilterNonEmpty(Tail(segs))
    ELSE <<Head(segs)>> \o FilterNonEmpty(Tail(segs))

\* segments[1:-1] = filter(None, segments[1:-1])
FilterMiddle(segs) ==
    IF Len(segs) <= 2 THEN segs
    ELSE <<segs[1]>> \o FilterNonEmpty(SubSeq(segs, 2, Len(segs) - 1))
         \o <<segs[Len(segs)]>>

\* the loop that resolves "." and ".." segments
RECURSIVE ResolveDots(_, _)
ResolveDots(segs, resolved) ==
    IF segs = <<>> THEN resolved
    ELSE IF Head(segs) = ".."
         THEN ResolveDots(Tail(segs),
                          IF resolved = <<>> THEN <<>> ELSE Front(resolved))
    ELSE IF Head(segs) = "."
         THEN ResolveDots(Tail(segs), resolved)
    ELSE ResolveDots(Tail(segs), Append(resolved, Head(segs)))

\* path.startswith('/')
IsAbsolutePath(path) == Len(path) >= 2 /\ path[1] = ""

JoinedPath(bpath, path) ==
    LET base_parts == IF bpath[Len(bpath)] # "" THEN Front(bpath) ELSE bpath
        segments == IF IsAbsolutePath(path) THEN path
                    ELSE FilterMiddle(base_parts \o path)
        r0 == ResolveDots(segments, <<>>)
        resolved == IF segments[Len(segments)] \in {".", ".."}
                    THEN Append(r0, "") ELSE r0
        \* '/'.join(resolved_path) or '/'
        joined == IF resolved = <<>> \/ resolved = <<"">> THEN <<"", "">>
                  ELSE resolved
    IN  joined

\* urlunparse puts a '/' between a netloc and a relative path
UrlUnparse(scheme, netloc, path) ==
    IF netloc # "" /\ path # <<"">> /\ ~IsAbsolutePath(path)
    THEN Url(scheme, netloc, <<"">> \o path)
    ELSE Url(scheme, netloc, path)

UrlJoin(base, url) ==
    IF IsEmptyUrl(base) THEN url
    ELSE IF IsEmptyUrl(url) THEN base
    ELSE LET scheme == IF url.scheme = "" THEN base.scheme ELSE url.scheme IN
         IF scheme # base.scheme \/ scheme \notin UsesRelative THEN url
         ELSE IF scheme \in UsesNetloc /\ url.netloc # ""
              THEN UrlUnparse(scheme, url.netloc, url.path)
         ELSE LET netloc == IF scheme \in UsesNetloc THEN base.netloc
                            ELSE url.netloc IN
              IF url.path = <<"">> THEN UrlUnparse(scheme, netloc, base.path)
              ELSE UrlUnparse(scheme, netloc, JoinedPath(base.path, url.path))

\* endpoint.startswith(prefix), for a prefix that ends with '/': every
\* segment of the prefix but the empty last one is a segment of the endpoint
StartsWith(e, prefix) ==
    /\ e.scheme = prefix.scheme
    /\ e.netloc = prefix.netloc
    /\ Len(e.path) >= Len(prefix.path)
    /\ \A i \in 1..(Len(prefix.path) - 1) : e.path[i] = prefix.path[i]

\* lines 36-38 of doJiraRequest
ResolveUri(srv, e) ==
    LET e2 == IF ~StartsWith(e, REST_ENDPOINT_PREFIX)
              THEN UrlJoin(REST_ENDPOINT_PREFIX, e)
              ELSE e
    IN  UrlJoin(srv, e2)

Servers ==
    { Url("http", "host", <<"">>),                \* http://host
      Url("http", "host", <<"", "">>),            \* http://host/
      Url("http", "host", <<"", "jira">>),        \* http://host/jira
      Url("http", "host", <<"", "jira", "">>) }   \* http://host/jira/

Relative(path) == Url("", "", path)

IssueEndpoint == Relative(<<"issue">>)

Endpoints ==
    { IssueEndpoint,
      Relative(<<"project">>),
      Relative(<<"rest", "api", "2", "issue">>) }

-----------------------------------------------------------------------------
(* json.loads, on the tokens of the response content *)

Punct(c) == <<"punct", c>>
Str(t) == <<"string", t>>
Raw(t) == <<"raw", t>>

JsonObject(members) == [type |-> "object", members |-> members]

\* body = {}
EmptyMapping == JsonObject({})

\* [ok, val]: ok is FALSE where json.loads raises ValueError
JsonLoads(content) ==
    IF content = <<Punct("{"), Punct("}")>>
    THEN [ok |-> TRUE, val |-> EmptyMapping]
    ELSE IF /\ Len(content) = 5
            /\ content[1] = Punct("{")
            /\ content[2][1] = "string"
            /\ content[3] = Punct(":")
            /\ content[4][1] = "string"
            /\ content[5] = Punct("}")
    THEN [ok |-> TRUE, val |-> JsonObject({<<content[2][2], content[4][2]>>})]
    ELSE [ok |-> FALSE, val |-> EmptyMapping]

Contents ==
    { <<Punct("{"), Str("id"), Punct(":"), Str("123"), Punct("}")>>,  \* {"id": "123"}
      <<Punct("{"), Punct("}")>>,                                     \* {}
      <<Punct("{"), Str("id"), Punct(":")>>,                          \* {"id":
      <<Raw("<html>")>>,                                              \* <html>
      <<>> }                                                          \* empty

StatusCodes == {200, 201, 204, 400, 500}

NoOutcome == [kind |-> "none", code |-> 0, content |-> <<>>]
Response(code, content) == [kind |-> "response", code |-> code, content |-> content]
TransportFailure == [kind |-> "error", code |-> 0, content |-> <<>>]

-----------------------------------------------------------------------------
(* doJiraRequest, from the call of requests.request on *)

Result(e, st, b) == [exc |-> e, status |-> st, body |-> b]

\* mutant: every 2xx code is taken for a success
IsSuccessCodeAny2xx(code) == code \in 200..299

\* response.status_code in [200, 201]
IsSuccessCode(code) == code \in {200, 201}

\* lines 45-47: the 2xx branch; status is assigned after the parse
SuccessBranch(content) ==
    LET p == JsonLoads(content) IN
    IF p.ok THEN Result(NoException, "success", p.val)
    ELSE Result(Raise("ValueError", "json", {}, {}), "", EmptyMapping)

\* mutant: the body of an error answer is not parsed
ErrorBranchNoParse(content) == Result(NoException, "", EmptyMapping)

\* lines 49-53: the other branch, with its own handler of ValueError
ErrorBranch(content) ==
    LET p == JsonLoads(content)
        raised == IF p.ok THEN "none" ELSE "ValueError"
    IN  IF raised = "none" THEN Result(NoException, "", p.val)
        ELSE IF IsInstance(raised, "ValueError")
             THEN Result(NoException, "", EmptyMapping)
        ELSE Result(Raise(raised, "json", {}, {}), "", EmptyMapping)

\* lines 43-53: the body of the try statement
TryBody(o) ==
    IF o.kind = "error"
    THEN Result(Raise("RequestException", "transport", {}, {}), "", EmptyMapping)
    ELSE IF IsSuccessCode(o.code) THEN SuccessBranch(o.content)
    ELSE ErrorBranch(o.content)

\* mutant: the handler catches transport failures only
OuterCatchesTransportOnly(type) == IsInstance(type, "RequestException")

\* mutant: the handler catches parse failures only
OuterCatchesValueErrorOnly(type) == IsInstance(type, "ValueError")

\* line 54: except Exception
OuterCatches(type) == IsInstance(type, "Exception")

\* lines 40-56: what doJiraRequest does with the outcome of the HTTP call
DoJiraRequestResult(o) ==
    LET t == TryBody(o) IN
    IF t.exc.type # "none" /\ OuterCatches(t.exc.type)
    THEN Result(NoException, t.status, t.body)
    ELSE t

HttpRequest(method, uri, json) == [method |-> method, uri |-> uri, json |-> json]

\* mutant: the request is sent again
TransmitTwice(w, req) == Append(Append(w, req), req)

\* line 43: requests.request(method, uri, json=data, ...) puts one request
\* on the wire
Transmit(w, req) == Append(w, req)

-----------------------------------------------------------------------------
(* The inputs *)

FieldSets == UNION {[ks -> FieldValues] : ks \in SUBSET Fields}

Actions ==
    UNION {[vs -> ActionValues] :
             vs \in {x \in SUBSET Verbs : Cardinality(x) \in 1..MaxKeys}}

ActionSeqs == UNION {[1..n -> Actions] : n \in 0..MaxActions}

Item(field, actions) == [field |-> field, actions |-> actions]

\* the dicts over Fields, as item sequences in insertion order
UpdateSets ==
    {<<>>}
    \cup {<<Item(f, a)>> : f \in Fields, a \in ActionSeqs}
    \cup {<<Item(fg[1], a), Item(fg[2], b)>> :
            fg \in {x \in Fields \X Fields : x[1] # x[2]},
            a \in ActionSeqs, b \in ActionSeqs}

OptionalFieldSets == {NoneArg} \cup {Some(f) : f \in FieldSets}
OptionalUpdateSets == {[present |-> FALSE, val |-> <<>>]}
                      \cup {Some(u) : u \in UpdateSets}

Methods == {"GET", "POST"}

-----------------------------------------------------------------------------
(* The state machine *)

Init ==
    /\ pc = "idle"
    /\ op = "none"
    /\ server \in Servers
    /\ fieldArgs = NoneArg
    /\ updateArgs = [present |-> FALSE, val |-> <<>>]
    /\ endpoint = Relative(<<"">>)
    /\ data = NoData
    /\ wire = <<>>
    /\ outcome = NoOutcome
    /\ status = ""
    /\ body = EmptyMapping
    /\ exc = NoException

\* mutant: the request is sent before the payload is validated
CreateOneIssueStepSendsFirst(srv, f, u, w) ==
    LET r == ProcessUpdateFields(f, u)
        sent == Transmit(w, HttpRequest("POST", ResolveUri(srv, IssueEndpoint), r.data))
    IN  IF r.exc.type # "none"
        THEN [pc |-> "raised", exc |-> r.exc, data |-> NoData, wire |-> sent]
        ELSE [pc |-> "waiting", exc |-> NoException, data |-> r.data, wire |-> sent]

\* createOneIssue up to the point where it blocks in the HTTP call or raises:
\* the next pc, the exception, the body built and the wire
CreateOneIssueStep(srv, f, u, w) ==
    LET r == ProcessUpdateFields(f, u) IN
    IF r.exc.type # "none"
    THEN [pc |-> "raised", exc |-> r.exc, data |-> NoData, wire |-> w]
    ELSE [pc |-> "waiting", exc |-> NoException, data |-> r.data,
          wire |-> Transmit(w, HttpRequest("POST", ResolveUri(srv, IssueEndpoint),
                                           r.data))]

\* a call of createOneIssue on the idle client
CreateOneIssue ==
    /\ pc = "idle"
    /\ \E f \in OptionalFieldSets, u \in OptionalUpdateSets :
        /\ LET s == CreateOneIssueStep(server, f, u, wire) IN
            /\ pc' = s.pc
            /\ exc' = s.exc
            /\ data' = s.data
            /\ wire' = s.wire
        /\ op' = "createOneIssue"
        /\ fieldArgs' = f
        /\ updateArgs' = u
        /\ endpoint' = IssueEndpoint
    /\ UNCHANGED <<server, outcome, status, body>>

\* a direct call of doJiraRequest on the idle client, up to the HTTP call
DoJiraRequest ==
    /\ pc = "idle"
    /\ \E method \in Methods, e \in Endpoints :
        /\ endpoint' = e
        /\ wire' = Transmit(wire, HttpRequest(method, ResolveUri(server, e), NoData))
    /\ pc' = "waiting"
    /\ op' = "doJiraRequest"
    /\ data' = NoData
    /\ UNCHANGED <<server, fieldArgs, updateArgs, outcome, status, body, exc>>

\* the HTTP call ends with outcome o and doJiraRequest runs to its end
Complete(o) ==
    /\ pc = "waiting"
    /\ outcome' = o
    /\ LET r == DoJiraRequestResult(o) IN
        /\ exc' = r.exc
        /\ status' = r.status
        /\ body' = r.body
        /\ pc' = IF r.exc.type = "none" THEN "returned" ELSE "raised"
    /\ UNCHANGED <<op, server, fieldArgs, updateArgs, endpoint, data, wire>>

HttpResponse == \E code \in StatusCodes, content \in Contents :
                    Complete(Response(code, content))

TransportError == Complete(TransportFailure)

Next ==
    \/ CreateOneIssue
    \/ DoJiraRequest
    \/ HttpResponse
    \/ TransportError

Spec == Init /\ [][Next]_vars

-----------------------------------------------------------------------------
(* Vocabulary of the properties *)

\* the closed enumeration of legal verbs the specification speaks of
SpecUpdateVerbs == {"add", "set", "remove"}

Created == op = "createOneIssue"

BuilderResult == ProcessUpdateFields(fieldArgs, updateArgs)

SharedFields ==
    {k \in Fields : /\ fieldArgs.present /\ updateArgs.present
                    /\ k \in DOMAIN fieldArgs.val
                    /\ \E i \in 1..Len(updateArgs.val) : updateArgs.val[i].field = k}

OffendingVerbs(i) == VerbsOf(updateArgs.val[i].actions) \ SpecUpdateVerbs

HasOffendingVerb ==
    /\ updateArgs.present
    /\ \E i \in 1..Len(updateArgs.val) : OffendingVerbs(i) # {}

Answered == outcome.kind = "response"

Parsed == JsonLoads(outcome.content)

\* str.rstrip('/') of a path
RECURSIVE RStrip(_)
RStrip(path) ==
    IF Len(path) > 1 /\ path[Len(path)] = "" THEN RStrip(Front(path)) ELSE path

\* {server}/rest/api/2/{resource}
ExpectedUri(srv, resource) ==
    Url(srv.scheme, srv.netloc, RStrip(srv.path) \o <<"rest", "api", "2", resource>>)

LastSegments(path, n) == SubSeq(path, Len(path) - n + 1, Len(path))

-----------------------------------------------------------------------------
(* Properties *)

\* C1: whenever the payload builder fails in createOneIssue, no HTTP request
\* has been sent, no outcome has been awaited, and the caller gets the very
\* exception the builder raised instead of a (status, body) result.
C1_ValidationBeforeIO ==
    (Created /\ BuilderResult.exc.type # "none")
        => /\ pc = "raised"
           /\ exc = BuilderResult.exc
           /\ wire = <<>>
           /\ outcome = NoOutcome
           /\ status = "" /\ body = EmptyMapping

C1_Witness ==
    /\ Created /\ pc = "raised"
    /\ exc.type = "JiraError"
    /\ wire = <<>>

\* C2: when fieldArgs and updateArgs are both present and share a field
\* name, the call fails with the JiraError about duplicate fields, naming
\* exactly the shared names, whatever verbs the update actions use.
C2_DuplicateField ==
    (Created /\ SharedFields # {})
        => /\ pc = "raised"
           /\ exc.type = "JiraError"
           /\ exc.text = "Following fields are present in both fieldArgs and updateArgs"
           /\ exc.args = SharedFields

C2_Witness ==
    /\ Created /\ pc = "raised"
    /\ SharedFields = {"summary"}
    /\ Len(updateArgs.val) = 2
    /\ HasOffendingVerb
    /\ exc.args = {"summary"}

\* C3 (as stated): an update set disjoint from the field set that uses a verb
\* outside UPDATE_VERBS fails with a JiraError naming exactly the offending
\* verbs of a field and listing UPDATE_VERBS as the allowed set.
C3_UnsupportedVerb ==
    (Created /\ SharedFields = {} /\ HasOffendingVerb)
        => /\ pc = "raised"
           /\ exc.type = "JiraError"
           /\ \E i \in 1..Len(updateArgs.val) :
                 OffendingVerbs(i) # {} /\ exc.args = OffendingVerbs(i)
           /\ exc.allowed = SpecUpdateVerbs

\* C4 (as stated): with disjoint field names and only legal verbs the builder
\* succeeds; the body has "fields" exactly when fieldArgs is present and
\* "update" exactly when updateArgs is present, holding the inputs verbatim.
C4_BuilderSucceeds ==
    (Created /\ SharedFields = {} /\ ~HasOffendingVerb)
        => /\ pc \in {"waiting", "returned"}
           /\ ("fields" \in data.keys) <=> fieldArgs.present
           /\ ("update" \in data.keys) <=> updateArgs.present
           /\ fieldArgs.present => data.fields = fieldArgs.val
           /\ updateArgs.present => data.update = updateArgs.val

\* C5 (as stated): a 200 or 201 answer whose body is not valid JSON makes
\* doJiraRequest raise the parse failure instead of returning a result.
C5_MalformedSuccessRaises ==
    (Answered /\ outcome.code \in {200, 201} /\ ~Parsed.ok)
        => pc = "raised" /\ exc.type = "ValueError"

\* C5 (amended): a 200 or 201 answer whose body is not valid JSON makes
\* doJiraRequest return ("", {}): the parse failure is caught by the general
\* handler, as a transport failure is, and nothing is raised.
C5_MalformedSuccessReturnsEmpty ==
    (Answered /\ outcome.code \in {200, 201} /\ ~Parsed.ok)
        => /\ pc = "returned"
           /\ exc = NoException
           /\ status = ""
           /\ body = EmptyMapping

C5_Witness ==
    /\ pc = "returned"
    /\ Answered /\ outcome.code = 200 /\ outcome.content = <<Raw("<html>")>>
    /\ status = "" /\ body = EmptyMapping

\* C6: a returned result has status "success" or ""; it is "success" exactly
\* when the answer was 200 or 201 with a valid JSON body, the body is then
\* the parsed JSON, and such an answer always yields a returned result.
C6_SuccessIff2xxJson ==
    /\ pc = "returned" =>
          /\ status \in {"success", ""}
          /\ status = "success" <=>
                (Answered /\ outcome.code \in {200, 201} /\ Parsed.ok)
          /\ status = "success" => body = Parsed.val
    /\ (Answered /\ outcome.code \in {200, 201} /\ Parsed.ok) => pc = "returned"

C6_Witness ==
    /\ pc = "returned"
    /\ outcome = Response(201, <<Punct("{"), Str("id"), Punct(":"), Str("123"), Punct("}")>>)
    /\ status = "success"
    /\ body = JsonObject({<<"id", "123">>})

\* C7: an answer with a status code other than 200 and 201 yields a returned
\* result with status "" whose body is the parsed JSON of the answer when it
\* parses and the empty mapping when it does not.
C7_ApiErrorReturned ==
    (Answered /\ outcome.code \notin {200, 201})
        => /\ pc = "returned"
           /\ exc = NoException
           /\ status = ""
           /\ body = IF Parsed.ok THEN Parsed.val ELSE EmptyMapping

C7_Witness ==
    /\ pc = "returned"
    /\ outcome = Response(400, <<Raw("<html>")>>)
    /\ status = "" /\ body = EmptyMapping

\* C8: a transport failure of the HTTP call yields the returned result
\* ("", {}); no exception reaches the caller.
C8_TransportFailureReturned ==
    outcome.kind = "error"
        => /\ pc = "returned"
           /\ exc = NoException
           /\ status = ""
           /\ body = EmptyMapping

C8_Witness ==
    /\ pc = "returned"
    /\ outcome = TransportFailure
    /\ status = "" /\ body = EmptyMapping

\* C9: a createOneIssue call whose payload validation succeeds has exactly one
\* request on the wire, a POST of the built body to rest/api/2/issue, from the
\* moment it waits for the outcome until after it has returned, and it
\* returns only with an outcome.
C9_ExactlyOneRequest ==
    (Created /\ BuilderResult.exc.type = "none")
        => /\ pc \in {"waiting", "returned"}
           /\ Len(wire) = 1
           /\ wire[1].method = "POST"
           /\ LastSegments(wire[1].uri.path, 4) = <<"rest", "api", "2", "issue">>
           /\ wire[1].json = data
           /\ pc = "returned" <=> outcome # NoOutcome

C9_Witness ==
    /\ Created /\ pc = "returned"
    /\ outcome = TransportFailure
    /\ Len(wire) = 1

\* C10 (as stated): the request of doJiraRequest goes to
\* {server}/rest/api/2/{resource} for every server base URL and for a bare or
\* an already prefixed endpoint.
C10_UriIsServerPrefixResource ==
    wire # <<>>
        => wire[1].uri = ExpectedUri(server, endpoint.path[Len(endpoint.path)])

====
